---------------------------- MODULE Spec2Model ----------------------------
(***************************************************************************)
(* OpsChat-lite: the chunker (backend/chunking.py), the chunk store        *)
(* (backend/database.py) and the index / embedding handlers                *)
(* (backend/main.py).                                                      *)
(*                                                                         *)
(* Two state machines share this module.                                   *)
(*   ChunkSpec  runs chunk_text one loop iteration per step on bounded     *)
(*              inputs (raw text, chunk_size, overlap).                    *)
(*   Spec       runs the HTTP handlers index_document and                  *)
(*              generate_embeddings_for_document concurrently (FastAPI     *)
(*              serves plain "def" endpoints from a thread pool), one      *)
(*              committed SQLite statement per step.                       *)
(* Text positions are 0-based as in the Python source; a text is a         *)
(* sequence of one-character strings, so text[i] of the source is t[i+1].  *)
(***************************************************************************)
EXTENDS Integers, Sequences, FiniteSets, TLC

\* ------------------------------------------------------------------ bounds
MaxLen == 5
MaxChunkSize == 4
MaxOverlap == 4
MaxIters == 8
MaxRequests == 3
MaxBelow == 2
MaxDim == 2
MaxCandidates == 2

\* ------------------------------------------------------- character classes
Letters == {"a", "b"}
Whitespace == {" ", "\n"}
Chars == Letters \cup Whitespace

Min(a, b) == IF a < b THEN a ELSE b
Max(a, b) == IF a > b THEN a ELSE b

\* ---------------------------------------------------- Python string helpers
\* str.strip(): drop leading and trailing whitespace.
Strip(s) ==
    LET Inked(i) == s[i] \notin Whitespace
        n == Len(s)
    IN  IF \A i \in 1 .. n : ~Inked(i) THEN << >>
        ELSE SubSeq(s,
                    CHOOSE i \in 1 .. n : Inked(i) /\ \A j \in 1 .. (i - 1) : ~Inked(j),
                    CHOOSE i \in 1 .. n : Inked(i) /\ \A j \in (i + 1) .. n : ~Inked(j))

\* Every run of whitespace inside t shrinks to one space: a character stays
\* if it is not whitespace, or if it is the first of its whitespace run.
Squeeze(t) ==
    LET Kept(e) == \/ e[2] \notin Whitespace
                   \/ e[1] > 1 /\ t[e[1] - 1] \notin Whitespace
        kept == SelectSeq([i \in 1 .. Len(t) |-> << i, t[i] >>], Kept)
        n == Len(kept)
    IN  SubSeq([k \in 1 .. n |-> IF kept[k][2] \in Whitespace THEN " " ELSE kept[k][2]], 1, n)

\* text = ' '.join(text.split()): the words of the text in order, one space
\* between neighbours; leading and trailing whitespace goes.
Normalize(s) == Squeeze(Strip(s))

\* A slice bound as Python reads it: a negative bound counts from the end of
\* the text, and every bound is clipped to 0 .. len(text).
PyIndex(t, i) == IF i < 0 THEN Max(i + Len(t), 0) ELSE Min(i, Len(t))

\* text[from:upto] for 0 <= from
Slice(t, from, upto) == SubSeq(t, from + 1, PyIndex(t, upto))

\* text.find(' ', from, upto) in the place of rfind: the lowest such i.
RFindFirst(t, from, upto) ==
    LET hi == PyIndex(t, upto) - 1
        Found(i) == t[i + 1] = " " /\ \A j \in from .. (i - 1) : t[j + 1] # " "
    IN  IF \E i \in from .. hi : Found(i)
        THEN CHOOSE i \in from .. hi : Found(i)
        ELSE -1

\* text.rfind(' ', from, upto): highest i in [from, upto) with text[i] = ' ',
\* or -1 when there is none.
RFind(t, from, upto) ==
    LET hi == PyIndex(t, upto) - 1
        Found(i) == t[i + 1] = " " /\ \A j \in (i + 1) .. hi : t[j + 1] # " "
    IN  IF \E i \in from .. hi : Found(i)
        THEN CHOOSE i \in from .. hi : Found(i)
        ELSE -1

\* --------------------------------------------------- chunk_text, loop body
\* ChunkEnd with a window one character too wide.
ChunkEndOneMore(t, cs, from) ==
    LET end == from + cs + 1
    IN  IF end < Len(t)
        THEN LET last_space == RFind(t, from, end)
             IN  IF last_space > from THEN last_space ELSE end
        ELSE end

\* End of the chunk of the iteration that begins with start = from (lines 129-137).
ChunkEnd(t, cs, from) ==
    LET end == from + cs
    IN  IF end < Len(t)
        THEN LET last_space == RFind(t, from, end)
             IN  IF last_space > from THEN last_space ELSE end
        ELSE end

\* The chunk without the strip().
ChunkOfUnstripped(t, cs, from) == Slice(t, from, ChunkEnd(t, cs, from))

\* The chunk extracted in this iteration (line 140).
ChunkOf(t, cs, from) == Strip(Slice(t, from, ChunkEnd(t, cs, from)))

\* NextStart with the advance one character too far.
NextStartOneTooFar(t, cs, ov, from) ==
    LET old_start == from
        s == ChunkEnd(t, cs, from) - ov + 1
    IN  IF s <= old_start THEN old_start ELSE s

\* The next start position (lines 144-150).
NextStart(t, cs, ov, from) ==
    LET old_start == from
        s == ChunkEnd(t, cs, from) - ov
    IN  IF s <= old_start THEN old_start ELSE s

\* chunk_text(text, chunk_size, overlap) run to completion (lines 117-152).
\* The loop state is start alone, and start never decreases, so the loop
\* fails to halt exactly when an iteration leaves start where it was.
RECURSIVE ChunkLoop(_, _, _, _, _)
ChunkLoop(t, cs, ov, s, acc) ==
    IF ~(s < Len(t)) THEN [halts |-> TRUE, chunks |-> acc]
    ELSE LET chunk == ChunkOf(t, cs, s)
             acc2 == IF chunk # << >> THEN Append(acc, chunk) ELSE acc
             n == NextStart(t, cs, ov, s)
         IN  IF n = s THEN [halts |-> FALSE, chunks |-> acc2]
             ELSE ChunkLoop(t, cs, ov, n, acc2)

\* The guard answering a list that holds one empty chunk.
EmptyInputChunksOneBlank == << << >> >>

\* What the guard of lines 117-118 returns: return [].
EmptyInputChunks == << >>

chunk_text(raw, cs, ov) ==
    IF raw = << >> \/ Strip(raw) = << >>
    THEN [halts |-> TRUE, chunks |-> EmptyInputChunks]
    ELSE ChunkLoop(Normalize(raw), cs, ov, 0, << >>)

\* ------------------------------------------------------ program constants
INDEX_CHUNK_SIZE == 500
INDEX_OVERLAP == 50

\* ------------------------------------------------------------- the world
Procs == {1, 2}          \* worker threads serving requests
DocIds == {1, 2}         \* rows of the documents table
RequestIds == {1, 2, 3}  \* document ids a request may carry (3 is unknown)
Vectors == { << 1, 0 >>, << 0, 1 >> }   \* what the external embedder may return
QueryTexts == { << >>, << " " >>, << "a", "b" >> }   \* parameter q of the two searches
QueryVectors == { << 1, 0 >>, << 1, 1 >>, << 1, 0, 0 >> }   \* what the embedder may return for a query
Ks == {0, 1, 2, 20, 21}                  \* parameter k of the two searches

\* SQL NULL in the embedding column.  A stored embedding is the vector the
\* embedder returned, tagged (history) with the row whose text was embedded.
NULL == [of |-> 0, vec |-> << >>]

\* A thread that has not produced a response.
NoResponse ==
    [op |-> "none", status |-> 0, detail |-> "", chunks_created |-> 0,
     total_chunks |-> 0, embeddings_generated |-> 0, embeddings_skipped |-> 0,
     results |-> << >>, total_chunks_searched |-> 0, results_returned |-> 0,
     message |-> "", results_found |-> 0]

\* Contents of the uploaded files.  Document 1 is 520 characters of words of
\* seven letters (two chunks at 500/50); document 2 is a short note.
File1Text ==
    SubSeq([i \in 1 .. 520 |->
               IF i % 8 = 0 THEN (IF i % 40 = 0 THEN "\n" ELSE " ")
               ELSE IF i % 3 = 0 THEN "b" ELSE "a"], 1, 520)

File2Text == << "a", "b", " ", " ", "a" >>

\* chunk_document(file_path, 500, 50) for each stored file (main.py 187-191).
Doc1Chunks == chunk_text(File1Text, INDEX_CHUNK_SIZE, INDEX_OVERLAP)

Doc2Chunks == chunk_text(File2Text, INDEX_CHUNK_SIZE, INDEX_OVERLAP)

DocChunks(d) == IF d = 1 THEN Doc1Chunks ELSE Doc2Chunks

\* A chunk string held by a handler or a row is kept as a reference <<d, k>>
\* to the k-th string chunk_document returned for file d; TextOf gives the
\* characters.
ChunkRefs(d) == [k \in 1 .. Len(DocChunks(d).chunks) |-> << d, k >>]

TextOf(ref) == DocChunks(ref[1]).chunks[ref[2]]

\* ------------------------------------------------------------------- state
VARIABLES
    text,          \* chunk_text: the argument as passed in
    chunk_size,    \* chunk_text: argument
    overlap,       \* chunk_text: argument
    ctext,         \* chunk_text: text after whitespace normalisation
    start,         \* chunk_text: loop variable
    chunks,        \* chunk_text: the list being built
    spans,         \* history: <<start, end>> of every emitted chunk, end clipped to L
    iters,         \* history: loop iterations executed (see ChunkIter)
    cpc,           \* chunk_text: "entry", "loop", "done"
    rows,          \* table chunks: set of rows
    seq,           \* sqlite_sequence of chunks: largest id ever handed out
    pc,            \* per thread: where its handler stands
    document_id,   \* per thread: the handler's argument
    existing_chunk_count, \* index_document local
    chunks_list,   \* index_document local
    index,         \* index_document: chunks inserted so far (enumerate position)
    gen_chunks,    \* generate_embeddings_for_document local "chunks"
    pos,           \* generate_embeddings_for_document: chunks processed so far
    embeddings_generated,
    embeddings_skipped,
    response,      \* per thread: what the handler returned or raised
    calls,         \* history, per thread: chunk ids passed to the embedder in this pass
    prior,         \* history, per thread: the pass began after a pass over the same rows had succeeded
    lastPass,      \* history, per document: chunk ids read by the last pass that succeeded
    staleWrite,    \* history: some UPDATE addressed a chunk id that had been deleted
    served,        \* history: requests accepted so far
    seq0,          \* history, per thread: seq when index_document began
    top_k,         \* semantic_search: argument k
    vector1,       \* semantic_search local: the query's embedding
    search_query,  \* search_documents, semantic_search: argument q
    effects,       \* history, per thread: what a search has called, "embed" or "store", in order
    scored,        \* history, per thread: ids of the chunks semantic_search passed to compute_similarity
    query_vec,     \* ranking loop: the query's embedding
    candidates,    \* ranking loop: the embeddings of all_chunks, in order
    rank_k,        \* ranking loop: argument k
    sim_results,   \* ranking loop: the list "results" being built
    rank_out,      \* ranking loop: top_results as returned
    rpc            \* ranking loop: "loop", "done", "raised"

cvars == << text, chunk_size, overlap, ctext, start, chunks, spans, iters, cpc >>

svars == << rows, seq, pc, document_id, existing_chunk_count, chunks_list, index,
            gen_chunks, pos, embeddings_generated, embeddings_skipped, response,
            calls, prior, lastPass, staleWrite, served, seq0, top_k, vector1,
            search_query, effects, scored >>

rvars == << query_vec, candidates, rank_k, sim_results, rank_out, rpc >>

vars == << cvars, svars, rvars >>

\* The store as it is when no request has been served yet.
StoreIdle ==
    /\ rows = {}
    /\ seq = 0
    /\ pc = [p \in Procs |-> "idle"]
    /\ document_id = [p \in Procs |-> 0]
    /\ existing_chunk_count = [p \in Procs |-> 0]
    /\ chunks_list = [p \in Procs |-> << >>]
    /\ index = [p \in Procs |-> 0]
    /\ gen_chunks = [p \in Procs |-> << >>]
    /\ pos = [p \in Procs |-> 0]
    /\ embeddings_generated = [p \in Procs |-> 0]
    /\ embeddings_skipped = [p \in Procs |-> 0]
    /\ response = [p \in Procs |-> NoResponse]
    /\ calls = [p \in Procs |-> << >>]
    /\ prior = [p \in Procs |-> FALSE]
    /\ lastPass = [d \in DocIds |-> {}]
    /\ staleWrite = FALSE
    /\ served = 0
    /\ seq0 = [p \in Procs |-> 0]
    /\ top_k = [p \in Procs |-> 0]
    /\ vector1 = [p \in Procs |-> << >>]
    /\ search_query = [p \in Procs |-> << >>]
    /\ effects = [p \in Procs |-> << >>]
    /\ scored = [p \in Procs |-> {}]

\* The ranking loop before it is entered.
RankIdle ==
    /\ query_vec = << >>
    /\ candidates = << >>
    /\ rank_k = 1
    /\ sim_results = << >>
    /\ rank_out = << >>
    /\ rpc = "loop"

\* chunk_text before it is called.
ChunkIdle ==
    /\ text = << >>
    /\ chunk_size = 1
    /\ overlap = 0
    /\ ctext = << >>
    /\ start = 0
    /\ chunks = << >>
    /\ spans = << >>
    /\ iters = 0
    /\ cpc = "entry"

\* All raw texts of at most n characters.
RECURSIVE TextsUpTo(_)
TextsUpTo(n) ==
    IF n = 0 THEN { << >> }
    ELSE LET shorter == TextsUpTo(n - 1)
         IN  shorter \cup {Append(s, c) : s \in {x \in shorter : Len(x) = n - 1}, c \in Chars}

ChunkInit ==
    /\ text \in TextsUpTo(MaxLen)
    /\ chunk_size \in 1 .. MaxChunkSize
    /\ overlap \in 0 .. MaxOverlap
    /\ ctext = << >>
    /\ start = 0
    /\ chunks = << >>
    /\ spans = << >>
    /\ iters = 0
    /\ cpc = "entry"
    /\ StoreIdle
    /\ RankIdle

\* chunk_text called with any chunk_size, positive or not.
AnySizeInit ==
    /\ text \in TextsUpTo(MaxLen)
    /\ chunk_size \in (0 - MaxBelow) .. MaxChunkSize
    /\ overlap \in 0 .. MaxOverlap
    /\ ctext = << >>
    /\ start = 0
    /\ chunks = << >>
    /\ spans = << >>
    /\ iters = 0
    /\ cpc = "entry"
    /\ StoreIdle
    /\ RankIdle

\* Lines 117-125: the empty-input guard and the normalisation.
ChunkEnter ==
    /\ cpc = "entry"
    /\ IF text = << >> \/ Strip(text) = << >>
       THEN /\ cpc' = "done"
            /\ ctext' = ctext
            /\ chunks' = EmptyInputChunks
       ELSE /\ cpc' = "loop"
            /\ ctext' = Normalize(text)
            /\ chunks' = << >>
    /\ start' = 0
    /\ UNCHANGED << text, chunk_size, overlap, spans, iters, svars, rvars >>

\* Lines 127-150: one iteration of the while loop.  The list of a run that
\* never leaves the loop grows without end: the model keeps its first MaxIters
\* chunks, and counts iterations up to MaxIters, from where iters alternates
\* between MaxIters - 1 and MaxIters.  A run in which start advances makes at
\* most Len(ctext) iterations and stays below both limits.
ChunkIter ==
    /\ cpc = "loop"
    /\ start < Len(ctext)
    /\ LET end == ChunkEnd(ctext, chunk_size, start)
           chunk == ChunkOf(ctext, chunk_size, start)
           kept == chunk # << >> /\ Len(chunks) < MaxIters
       IN  /\ chunks' = IF kept THEN Append(chunks, chunk) ELSE chunks
           /\ spans' = IF kept
                       THEN Append(spans, << start, PyIndex(ctext, end) >>)
                       ELSE spans
    /\ start' = NextStart(ctext, chunk_size, overlap, start)
    /\ iters' = IF iters < MaxIters THEN iters + 1 ELSE MaxIters - 1
    /\ UNCHANGED << text, chunk_size, overlap, ctext, cpc, svars, rvars >>

\* Line 127 (loop exit) and line 152: return chunks.
ChunkReturn ==
    /\ cpc = "loop"
    /\ ~(start < Len(ctext))
    /\ cpc' = "done"
    /\ UNCHANGED << text, chunk_size, overlap, ctext, start, chunks, spans, iters, svars, rvars >>

ChunkNext == ChunkEnter \/ ChunkIter \/ ChunkReturn

ChunkSpec == ChunkInit /\ [][ChunkNext]_vars

\* The interpreter keeps executing a runnable loop.
FairChunkSpec == ChunkSpec /\ WF_vars(ChunkNext)

AnySizeSpec == AnySizeInit /\ [][ChunkNext]_vars

\* ------------------------------------------------------------ chunk store
\* SELECT ... FROM chunks WHERE document_id = ?
RowsOf(d) == {r \in rows : r.document_id = d}

\* count_chunks_for_document
count_chunks_for_document(d) == Cardinality(RowsOf(d))

\* A DELETE without its WHERE clause.
delete_existing_chunks_everything(d) == {}

\* delete_existing_chunks: the table after DELETE FROM chunks WHERE document_id = ?
delete_existing_chunks(d) == {r \in rows : r.document_id # d}

\* INTEGER PRIMARY KEY without AUTOINCREMENT: one more than the largest id
\* now in the table, so the ids of deleted rows come back.
NewRowIdReused == IF rows = {} THEN 1 ELSE 1 + CHOOSE m \in {r.id : r \in rows} : \A r \in rows : r.id <= m

\* id INTEGER PRIMARY KEY AUTOINCREMENT: one more than the largest id ever
\* used, which sqlite_sequence remembers across deletes.
NewRowId == seq + 1

\* INSERT OR REPLACE with chunk_index as the key: the new row takes the place
\* of every row of that chunk_index, whatever its document.
insert_chunk_replacing(d, chunk, chunk_index) ==
    {r \in rows : r.chunk_index # chunk_index}
        \cup {[id |-> NewRowId, document_id |-> d, chunk_text |-> chunk,
                chunk_index |-> chunk_index, embedding |-> NULL, born |-> seq + 1]}

\* insert_chunk: the table after the INSERT; the embedding column is not set.
\* born (history) numbers the INSERTs in the order they were committed.
insert_chunk(d, chunk, chunk_index) ==
    rows \cup {[id |-> NewRowId, document_id |-> d, chunk_text |-> chunk,
                chunk_index |-> chunk_index, embedding |-> NULL, born |-> seq + 1]}

\* update_chunk_embedding with the write lost.
update_chunk_embedding_lost(chunk_id, embedding) == rows

\* update_chunk_embedding: the table after UPDATE chunks SET embedding = ? WHERE id = ?
update_chunk_embedding(chunk_id, embedding) ==
    {IF r.id = chunk_id THEN [r EXCEPT !.embedding = embedding] ELSE r : r \in rows}

\* ORDER BY chunk_index: every order of S the clause allows (rows with equal
\* chunk_index come in an order SQL leaves open).
RECURSIVE OrderedByIndex(_)
OrderedByIndex(S) ==
    IF S = {} THEN { << >> }
    ELSE UNION { { << r >> \o t : t \in OrderedByIndex(S \ {r}) } :
                 r \in {x \in S : \A y \in S : x.chunk_index <= y.chunk_index} }

\* get_chunks_by_document: the possible result lists.
get_chunks_by_document(d) == OrderedByIndex(RowsOf(d))

Ids(chunkseq) == {chunkseq[i].id : i \in 1 .. Len(chunkseq)}

\* ORDER BY c.document_id, c.chunk_index: every order of S the clause allows.
RECURSIVE OrderedByDocumentAndIndex(_)
OrderedByDocumentAndIndex(S) ==
    LET NotAfter(x, y) == \/ x.document_id < y.document_id
                          \/ x.document_id = y.document_id /\ x.chunk_index <= y.chunk_index
    IN  IF S = {} THEN { << >> }
        ELSE UNION { { << r >> \o t : t \in OrderedByDocumentAndIndex(S \ {r}) } :
                     r \in {x \in S : \A y \in S : NotAfter(x, y)} }

\* get_all_chunks_with_embeddings without WHERE c.embedding IS NOT NULL.
get_all_chunks_with_embeddings_unfiltered == OrderedByDocumentAndIndex(rows)

\* get_all_chunks_with_embeddings(): the possible result lists.  Every chunk
\* row has a documents row to join with.
get_all_chunks_with_embeddings ==
    OrderedByDocumentAndIndex({r \in rows : r.embedding # NULL})

\* ---------------------------------------------------------- similarity ranker
SCALE == 10000     \* round(similarity, 4): scores are kept in ten-thousandths
MIN_K == 1
MAX_K == 20

\* np.dot(vec1, vec2) for vectors of one length, and ||v||^2.
RECURSIVE Dot(_, _)
Dot(a, b) == IF a = << >> THEN 0 ELSE Head(a) * Head(b) + Dot(Tail(a), Tail(b))

NormSq(a) == Dot(a, a)

\* compute_similarity with a guard that answers 1.0.
compute_similarity_guard_one(embedding1, embedding2) ==
    IF NormSq(embedding1) = 0 \/ NormSq(embedding2) = 0
    THEN [dot |-> 1, msq |-> 1]
    ELSE [dot |-> Dot(embedding1, embedding2),
          msq |-> NormSq(embedding1) * NormSq(embedding2)]

\* compute_similarity: the cosine dot / sqrt(msq), kept exact as the pair
\* (dot, msq); 0.0 when one of the magnitudes is 0.
compute_similarity(embedding1, embedding2) ==
    IF NormSq(embedding1) = 0 \/ NormSq(embedding2) = 0
    THEN [dot |-> 0, msq |-> 1]
    ELSE [dot |-> Dot(embedding1, embedding2),
          msq |-> NormSq(embedding1) * NormSq(embedding2)]

\* The largest y in lo .. hi - 1 with y * y <= n, for lo * lo <= n < hi * hi.
RECURSIVE ISqrtIn(_, _, _)
ISqrtIn(n, lo, hi) ==
    IF hi - lo <= 1 THEN lo
    ELSE LET mid == (lo + hi) \div 2
         IN  IF mid * mid <= n THEN ISqrtIn(n, mid, hi) ELSE ISqrtIn(n, lo, mid)

\* floor(q * a / m) for 0 <= a <= m, with no product above q + m * m.
MulDiv(q, a, m) == (q \div m) * a + ((q % m) * a) \div m

\* round(similarity, 4) in ten-thousandths: the integer x nearest to
\* SCALE * dot / sqrt(msq), that is x = (y + 1) \div 2 for
\* y = floor(2 * SCALE * |dot| / sqrt(msq)), with the sign of dot.
Round4(c) ==
    LET a == IF c.dot < 0 THEN 0 - c.dot ELSE c.dot
        y == ISqrtIn(MulDiv(4 * SCALE * SCALE, a * a, c.msq), 0, 4 * SCALE + 1)
        x == (y + 1) \div 2
    IN  IF c.dot < 0 THEN 0 - x ELSE x

\* Lines 378-390: one result per candidate, in candidate order.
ScoreAll(query, all_chunks) ==
    [i \in 1 .. Len(all_chunks) |->
        [chunk_id |-> all_chunks[i].id,
         chunk_text |-> all_chunks[i].chunk_text,
         chunk_index |-> all_chunks[i].chunk_index,
         document_id |-> all_chunks[i].document_id,
         similarity |-> Round4(compute_similarity(query, all_chunks[i].embedding.vec))]]

\* The sort with results of equal score in reversed order (what sorting
\* ascending and reversing the list would give).
SortBySimilarityReversedTies(results) ==
    LET n == Len(results)
        Place(i) == Cardinality({j \in 1 .. n : results[j].similarity > results[i].similarity})
                    + Cardinality({j \in i .. n : results[j].similarity = results[i].similarity})
    IN  [m \in 1 .. n |-> results[CHOOSE i \in 1 .. n : Place(i) = m]]

\* Line 393, results.sort(key=similarity, reverse=True): list.sort is stable,
\* also with reverse=True, so a result goes behind every result with a higher
\* score and behind the results of equal score that stood before it.
SortBySimilarity(results) ==
    LET n == Len(results)
        Place(i) == Cardinality({j \in 1 .. n : results[j].similarity > results[i].similarity})
                    + Cardinality({j \in 1 .. i : results[j].similarity = results[i].similarity})
    IN  [m \in 1 .. n |-> results[CHOOSE i \in 1 .. n : Place(i) = m]]

\* The slice one result too long.
TopResultsOneMore(results, k) == SubSeq(results, 1, Min(k + 1, Len(results)))

\* Line 396, results[:k] for k >= 0.
TopResults(results, k) == SubSeq(results, 1, Min(k, Len(results)))

\* The handler without its early return.
NothingToSearchIgnored(all_chunks) == FALSE

\* Line 368: the early return for an empty candidate list.
NothingToSearch(all_chunks) == Len(all_chunks) = 0

\* ------------------------------------------------- the ranking loop, stepwise
\* np.dot(vec1, vec2) raises ValueError for two 1-D arrays of different
\* lengths (embeddings.py line 79, before the zero-magnitude test).
DotRaises(a, b) == Len(a) # Len(b)

\* The ids of the candidates the loop of lines 379-390 hands to
\* compute_similarity when one of them raises: all up to the first that does.
ScoredUntilRaise(v, all_chunks) ==
    LET first == CHOOSE i \in 1 .. Len(all_chunks) :
                     /\ DotRaises(v, all_chunks[i].embedding.vec)
                     /\ \A j \in 1 .. (i - 1) : ~DotRaises(v, all_chunks[j].embedding.vec)
    IN  {all_chunks[i].id : i \in 1 .. first}

\* All vectors of n components, each -1, 0 or 1.
RECURSIVE VectorsOfDim(_)
VectorsOfDim(n) ==
    IF n = 0 THEN { << >> }
    ELSE {Append(v, x) : v \in VectorsOfDim(n - 1), x \in {-1, 0, 1}}

TestVectors == UNION {VectorsOfDim(n) : n \in 1 .. MaxDim}

\* All lists of at most n test vectors.
RECURSIVE VectorListsUpTo(_)
VectorListsUpTo(n) ==
    IF n = 0 THEN { << >> }
    ELSE LET shorter == VectorListsUpTo(n - 1)
         IN  shorter \cup {Append(l, v) : l \in {x \in shorter : Len(x) = n - 1},
                                           v \in TestVectors}

\* semantic_search at line 378, with a query embedding and the stored
\* embeddings it read.
RankInit ==
    /\ query_vec \in TestVectors
    /\ candidates \in VectorListsUpTo(MaxCandidates)
    /\ rank_k \in MIN_K .. MaxCandidates
    /\ sim_results = << >>
    /\ rank_out = << >>
    /\ rpc = "loop"
    /\ StoreIdle
    /\ ChunkIdle

\* Lines 380-390, one iteration: compute_similarity for the next candidate;
\* a ValueError from np.dot goes to the except branch of lines 407-409.
RankScore ==
    /\ rpc = "loop"
    /\ Len(sim_results) < Len(candidates)
    /\ LET i == Len(sim_results) + 1
       IN  IF DotRaises(query_vec, candidates[i])
           THEN /\ rpc' = "raised"
                /\ UNCHANGED sim_results
           ELSE /\ sim_results' = Append(sim_results,
                                    [chunk_id |-> i,
                                     similarity |-> Round4(compute_similarity(query_vec,
                                                                              candidates[i]))])
                /\ UNCHANGED rpc
    /\ UNCHANGED << query_vec, candidates, rank_k, rank_out, cvars, svars >>

\* Lines 368-374 (nothing to search) and 393-405: sort, cut, return.
RankReturn ==
    /\ rpc = "loop"
    /\ Len(sim_results) = Len(candidates)
    /\ rank_out' = TopResults(SortBySimilarity(sim_results), rank_k)
    /\ rpc' = "done"
    /\ UNCHANGED << query_vec, candidates, rank_k, sim_results, cvars, svars >>

RankNext == RankScore \/ RankReturn

RankSpec == RankInit /\ [][RankNext]_vars

\* ---------------------------------------------------------------- handlers
Init ==
    /\ StoreIdle
    /\ ChunkIdle
    /\ RankIdle

HttpError(op, status, detail) ==
    [NoResponse EXCEPT !.op = op, !.status = status, !.detail = detail]

\* index_document, lines 160-183 up to the count: document lookup, file check
\* (the file of a known document may be gone from the disk),
\* count_chunks_for_document.
IndexStart(p, d) ==
    /\ pc[p] = "idle"
    /\ served < MaxRequests
    /\ served' = served + 1
    /\ seq0' = [seq0 EXCEPT ![p] = seq]
    /\ document_id' = [document_id EXCEPT ![p] = d]
    /\ IF d \notin DocIds
       THEN /\ pc' = [pc EXCEPT ![p] = "done"]
            /\ response' = [response EXCEPT ![p] = HttpError("index", 404, "not found")]
            /\ UNCHANGED existing_chunk_count
       ELSE \/ /\ pc' = [pc EXCEPT ![p] = "done"]
               /\ response' = [response EXCEPT ![p] = HttpError("index", 500, "file missing")]
               /\ UNCHANGED existing_chunk_count
            \/ /\ existing_chunk_count' =
                      [existing_chunk_count EXCEPT ![p] = count_chunks_for_document(d)]
               /\ pc' = [pc EXCEPT ![p] =
                      IF count_chunks_for_document(d) > 0 THEN "idx_delete" ELSE "idx_chunk"]
               /\ UNCHANGED response
    /\ UNCHANGED << rows, seq, chunks_list, index, gen_chunks, pos, embeddings_generated,
                    embeddings_skipped, calls, prior, lastPass, staleWrite, cvars, rvars,
                    top_k, vector1,
                    search_query, effects, scored >>

\* index_document, lines 181-183: delete the existing chunks.
IndexDelete(p) ==
    /\ pc[p] = "idx_delete"
    /\ rows' = delete_existing_chunks(document_id[p])
    /\ pc' = [pc EXCEPT ![p] = "idx_chunk"]
    /\ UNCHANGED << seq, document_id, existing_chunk_count, chunks_list, index, gen_chunks,
                    pos, embeddings_generated, embeddings_skipped, response, calls, prior,
                    lastPass, staleWrite, cvars, rvars, served, seq0, top_k, vector1,
                    search_query, effects, scored >>

IndexSuccess(n) ==
    [NoResponse EXCEPT !.op = "index", !.status = 200, !.detail = "indexed",
                       !.chunks_created = n]

\* index_document, lines 186-196: chunk the file.  A call of chunk_text that
\* does not halt leaves the thread in the loop for good.
IndexChunk(p) ==
    /\ pc[p] = "idx_chunk"
    /\ LET res == DocChunks(document_id[p])
       IN  IF ~res.halts
           THEN /\ pc' = [pc EXCEPT ![p] = "idx_hung"]
                /\ UNCHANGED << chunks_list, response >>
           ELSE /\ chunks_list' = [chunks_list EXCEPT ![p] = ChunkRefs(document_id[p])]
                /\ IF res.chunks = << >>
                   THEN /\ pc' = [pc EXCEPT ![p] = "done"]
                        /\ response' = [response EXCEPT ![p] = IndexSuccess(0)]
                   ELSE /\ pc' = [pc EXCEPT ![p] = "idx_insert"]
                        /\ UNCHANGED response
    /\ index' = [index EXCEPT ![p] = 0]
    /\ UNCHANGED << rows, seq, document_id, existing_chunk_count, gen_chunks, pos,
                    embeddings_generated, embeddings_skipped, calls, prior, lastPass,
                    staleWrite, cvars, rvars, served, seq0, top_k, vector1,
                    search_query, effects, scored >>

\* index_document, lines 186-196: chunk_document raises (the file cannot be
\* read, or its type is not supported); the handler answers 500.
IndexChunkFail(p) ==
    /\ pc[p] = "idx_chunk"
    /\ pc' = [pc EXCEPT ![p] = "done"]
    /\ response' = [response EXCEPT ![p] = HttpError("index", 500, "chunking failed")]
    /\ UNCHANGED << rows, seq, document_id, existing_chunk_count, chunks_list, index,
                    gen_chunks, pos, embeddings_generated, embeddings_skipped, calls, prior,
                    lastPass, staleWrite, cvars, rvars, served, seq0, top_k, vector1,
                    search_query, effects, scored >>

\* index_document, lines 199-205 and 214-220: one insert_chunk of the loop;
\* after the last one the handler returns.
IndexInsert(p) ==
    /\ pc[p] = "idx_insert"
    /\ index[p] < Len(chunks_list[p])
    /\ rows' = insert_chunk(document_id[p], chunks_list[p][index[p] + 1], index[p])
    /\ seq' = seq + 1
    /\ index' = [index EXCEPT ![p] = index[p] + 1]
    /\ IF index[p] + 1 = Len(chunks_list[p])
       THEN /\ pc' = [pc EXCEPT ![p] = "done"]
            /\ response' = [response EXCEPT ![p] = IndexSuccess(Len(chunks_list[p]))]
       ELSE UNCHANGED << pc, response >>
    /\ UNCHANGED << document_id, existing_chunk_count, chunks_list, gen_chunks, pos,
                    embeddings_generated, embeddings_skipped, calls, prior, lastPass,
                    staleWrite, cvars, rvars, served, seq0, top_k, vector1,
                    search_query, effects, scored >>

\* The except branch without its delete.
RollbackRowsKept(d) == rows

\* What the except branch of the insert loop leaves in the table (line 207).
RollbackRows(d) == delete_existing_chunks(d)

\* index_document, lines 206-211: insert_chunk raises; the handler deletes the
\* document's chunks and answers 500.
IndexInsertFail(p) ==
    /\ pc[p] = "idx_insert"
    /\ index[p] < Len(chunks_list[p])
    /\ rows' = RollbackRows(document_id[p])
    /\ pc' = [pc EXCEPT ![p] = "done"]
    /\ response' = [response EXCEPT ![p] = HttpError("index", 500, "insert failed")]
    /\ UNCHANGED << seq, document_id, existing_chunk_count, chunks_list, index, gen_chunks,
                    pos, embeddings_generated, embeddings_skipped, calls, prior, lastPass,
                    staleWrite, cvars, rvars, served, seq0, top_k, vector1,
                    search_query, effects, scored >>

\* The test of the chunk list that lets every list pass.
NoChunksIgnored(cs) == FALSE

\* Line 289: if not chunks.
NoChunks(cs) == cs = << >>

\* generate_embeddings_for_document, lines 279-297: document lookup and
\* get_chunks_by_document.
GenStart(p, d) ==
    /\ pc[p] = "idle"
    /\ served < MaxRequests
    /\ served' = served + 1
    /\ document_id' = [document_id EXCEPT ![p] = d]
    /\ IF d \notin DocIds
       THEN /\ pc' = [pc EXCEPT ![p] = "done"]
            /\ response' = [response EXCEPT ![p] = HttpError("generate", 404, "not found")]
            /\ UNCHANGED << gen_chunks, prior >>
       ELSE \E cs \in get_chunks_by_document(d) :
              /\ gen_chunks' = [gen_chunks EXCEPT ![p] = cs]
              /\ prior' = [prior EXCEPT ![p] = (cs # << >> /\ lastPass[d] = Ids(cs))]
              /\ IF NoChunks(cs)
                 THEN /\ pc' = [pc EXCEPT ![p] = "done"]
                      /\ response' = [response EXCEPT ![p] =
                                         HttpError("generate", 404, "no chunks")]
                 ELSE /\ pc' = [pc EXCEPT ![p] = "gen_loop"]
                      /\ UNCHANGED response
    /\ UNCHANGED << rows, seq, existing_chunk_count, chunks_list, index, pos,
                    embeddings_generated, embeddings_skipped, calls, lastPass,
                    staleWrite, cvars, rvars, seq0, top_k, vector1,
                    search_query, effects, scored >>

\* The summary with the counters swapped.
GenResultSwapped(p, generated, skipped) ==
    [NoResponse EXCEPT !.op = "generate", !.status = 200, !.detail = "generated",
                       !.total_chunks = Len(gen_chunks[p]),
                       !.embeddings_generated = skipped,
                       !.embeddings_skipped = generated]

\* Lines 318-329: the summary the handler returns.
GenResult(p, generated, skipped) ==
    [NoResponse EXCEPT !.op = "generate", !.status = 200, !.detail = "generated",
                       !.total_chunks = Len(gen_chunks[p]),
                       !.embeddings_generated = generated,
                       !.embeddings_skipped = skipped]

\* Lines 314-329: after the last chunk of the loop the handler returns its summary.
GenAdvance(p, generated, skipped) ==
    /\ pos' = [pos EXCEPT ![p] = pos[p] + 1]
    /\ embeddings_generated' = [embeddings_generated EXCEPT ![p] = generated]
    /\ embeddings_skipped' = [embeddings_skipped EXCEPT ![p] = skipped]
    /\ IF pos[p] + 1 = Len(gen_chunks[p])
       THEN /\ pc' = [pc EXCEPT ![p] = "done"]
            /\ response' = [response EXCEPT ![p] = GenResult(p, generated, skipped)]
            /\ lastPass' = [lastPass EXCEPT ![document_id[p]] = Ids(gen_chunks[p])]
       ELSE UNCHANGED << pc, response, lastPass >>

\* The gate left open: every chunk is embedded again.
NeedsEmbeddingAlways(chunk) == TRUE

\* The gate of line 301: does this chunk of the list need an embedding?
NeedsEmbedding(chunk) == chunk.embedding = NULL

\* Lines 299-303: the chunk already has an embedding.
GenSkip(p) ==
    /\ pc[p] = "gen_loop"
    /\ pos[p] < Len(gen_chunks[p])
    /\ ~NeedsEmbedding(gen_chunks[p][pos[p] + 1])
    /\ GenAdvance(p, embeddings_generated[p], embeddings_skipped[p] + 1)
    /\ UNCHANGED << rows, seq, document_id, existing_chunk_count, chunks_list, index,
                    gen_chunks, calls, prior, staleWrite, cvars, rvars, served, seq0, top_k, vector1,
                    search_query, effects, scored >>

\* Lines 305-312: get_embedding returns a vector and update_chunk_embedding
\* stores it under the chunk's id.
GenEmbed(p) ==
    /\ pc[p] = "gen_loop"
    /\ pos[p] < Len(gen_chunks[p])
    /\ LET chunk == gen_chunks[p][pos[p] + 1]
       IN  /\ NeedsEmbedding(chunk)
           /\ \E v \in Vectors :
                rows' = update_chunk_embedding(chunk.id, [of |-> chunk.born, vec |-> v])
           /\ calls' = [calls EXCEPT ![p] = Append(calls[p], chunk.id)]
           /\ staleWrite' = (staleWrite \/ ~\E r \in rows : r.id = chunk.id)
    /\ GenAdvance(p, embeddings_generated[p] + 1, embeddings_skipped[p])
    /\ UNCHANGED << seq, document_id, existing_chunk_count, chunks_list, index,
                    gen_chunks, prior, cvars, rvars, served, seq0, top_k, vector1,
                    search_query, effects, scored >>

\* The handler undoing the writes of its pass when the embedder raises.
RowsAfterEmbedFailureUndone(p) ==
    {IF \E i \in 1 .. Len(calls[p]) : calls[p][i] = r.id
     THEN [r EXCEPT !.embedding = NULL] ELSE r : r \in rows}

\* The table after the except branch of lines 333-337: the branch only builds
\* the HTTPException; every UPDATE of the pass was committed on its own.
RowsAfterEmbedFailure(p) == rows

\* Lines 306 and 333-337: get_embedding raises; the handler answers 500.
GenEmbedFail(p) ==
    /\ pc[p] = "gen_loop"
    /\ pos[p] < Len(gen_chunks[p])
    /\ LET chunk == gen_chunks[p][pos[p] + 1]
       IN  /\ NeedsEmbedding(chunk)
           /\ calls' = [calls EXCEPT ![p] = Append(calls[p], chunk.id)]
    /\ rows' = RowsAfterEmbedFailure(p)
    /\ pc' = [pc EXCEPT ![p] = "done"]
    /\ response' = [response EXCEPT ![p] = HttpError("generate", 500, "embedding failed")]
    /\ UNCHANGED << seq, document_id, existing_chunk_count, chunks_list, index,
                    gen_chunks, pos, embeddings_generated, embeddings_skipped, prior,
                    lastPass, staleWrite, cvars, rvars, served, seq0, top_k, vector1,
                    search_query, effects, scored >>

\* The validation of q (main.py 238 and 353): not q or q.strip() == "".
BlankQuery(q) == q = << >> \/ Strip(q) = << >>

\* The validation of k with its lower limit missing.
BadKUpperOnly(k) == k > MAX_K

\* The validation of k (main.py 245 and 356): k < 1 or k > 20.
BadK(k) == k < MIN_K \/ k > MAX_K

\* A search that prunes the rows it cannot rank.
RowsAfterSearchPruned == {r \in rows : r.embedding # NULL}

\* The table after a search: get_all_chunks_with_embeddings and search_chunks
\* run a SELECT and close the connection without a commit.
RowsAfterSearch == rows

\* semantic_search, lines 352-409, as one step: the handler reads the store
\* once (line 366); the validation and the embedder call before it and the
\* ranking after it touch nothing shared.
SemanticSearch(p, q, k) ==
    /\ pc[p] = "idle"
    /\ served < MaxRequests
    /\ served' = served + 1
    /\ pc' = [pc EXCEPT ![p] = "done"]
    /\ top_k' = [top_k EXCEPT ![p] = k]
    /\ search_query' = [search_query EXCEPT ![p] = q]
    /\ \/ /\ BlankQuery(q)
          /\ response' = [response EXCEPT ![p] = HttpError("search", 400, "q required")]
          /\ effects' = [effects EXCEPT ![p] = << >>]
          /\ UNCHANGED << vector1, scored >>
       \/ /\ ~BlankQuery(q)
          /\ BadK(k)
          /\ response' = [response EXCEPT ![p] = HttpError("search", 400, "k out of range")]
          /\ effects' = [effects EXCEPT ![p] = << >>]
          /\ UNCHANGED << vector1, scored >>
       \/ /\ ~BlankQuery(q)
          /\ ~BadK(k)
          /\ \/ /\ response' = [response EXCEPT ![p] = HttpError("search", 500, "search failed")]
                /\ effects' = [effects EXCEPT ![p] = << "embed" >>]
                /\ UNCHANGED << vector1, scored >>
             \/ \E v \in QueryVectors : \E all_chunks \in get_all_chunks_with_embeddings :
                  /\ \E i \in 1 .. Len(all_chunks) : DotRaises(v, all_chunks[i].embedding.vec)
                  /\ vector1' = [vector1 EXCEPT ![p] = v]
                  /\ scored' = [scored EXCEPT ![p] = ScoredUntilRaise(v, all_chunks)]
                  /\ effects' = [effects EXCEPT ![p] = << "embed", "store" >>]
                  /\ response' = [response EXCEPT ![p] = HttpError("search", 500, "search failed")]
             \/ \E v \in QueryVectors : \E all_chunks \in get_all_chunks_with_embeddings :
                  /\ \A i \in 1 .. Len(all_chunks) : ~DotRaises(v, all_chunks[i].embedding.vec)
                  /\ vector1' = [vector1 EXCEPT ![p] = v]
                  /\ scored' = [scored EXCEPT ![p] = Ids(all_chunks)]
                  /\ effects' = [effects EXCEPT ![p] = << "embed", "store" >>]
                  /\ response' = [response EXCEPT ![p] =
                        IF NothingToSearch(all_chunks)
                        THEN [NoResponse EXCEPT !.op = "search", !.status = 200,
                                                !.message = "no embeddings"]
                        ELSE LET top_results ==
                                     TopResults(SortBySimilarity(ScoreAll(v, all_chunks)), k)
                             IN  [NoResponse EXCEPT !.op = "search", !.status = 200,
                                                    !.results = top_results,
                                                    !.total_chunks_searched = Len(all_chunks),
                                                    !.results_returned = Len(top_results)]]
    /\ rows' = RowsAfterSearch
    /\ UNCHANGED << seq, document_id, existing_chunk_count, chunks_list, index,
                    gen_chunks, pos, embeddings_generated, embeddings_skipped, calls,
                    prior, lastPass, staleWrite, cvars, rvars, seq0 >>

\* LIKE '%query%' over the alphabet of the model, which has no letter case and
\* neither of the wildcards % and _ : t contains query.
Like(query, t) ==
    \E i \in 0 .. (Len(t) - Len(query)) : SubSeq(t, i + 1, i + Len(query)) = query

\* The lists of n different members of S, in every order.
RECURSIVE Arrangements(_, _)
Arrangements(S, n) ==
    IF n = 0 \/ S = {} THEN { << >> }
    ELSE UNION { { << r >> \o t : t \in Arrangements(S \ {r}, n - 1) } : r \in S }

\* search_chunks(query, limit): the possible result lists of SELECT ... WHERE
\* chunk_text LIKE ? LIMIT ?, which has no ORDER BY.  A negative LIMIT is no
\* limit.  Every chunk row has a documents row to join with.
search_chunks(query, limit) ==
    LET matching == {r \in rows : Like(query, TextOf(r.chunk_text))}
        n == IF limit < 0 THEN Cardinality(matching)
             ELSE Min(limit, Cardinality(matching))
        RowDict(r) == [chunk_id |-> r.id, chunk_index |-> r.chunk_index,
                       document_id |-> r.document_id]
    IN  { [i \in 1 .. Len(found) |-> RowDict(found[i])] : found \in Arrangements(matching, n) }

\* search_documents, lines 237-260: validation, then search_chunks.
SearchDocuments(p, q, k) ==
    /\ pc[p] = "idle"
    /\ served < MaxRequests
    /\ served' = served + 1
    /\ pc' = [pc EXCEPT ![p] = "done"]
    /\ top_k' = [top_k EXCEPT ![p] = k]
    /\ search_query' = [search_query EXCEPT ![p] = q]
    /\ \/ /\ BlankQuery(q)
          /\ response' = [response EXCEPT ![p] = HttpError("lexical", 400, "q required")]
          /\ effects' = [effects EXCEPT ![p] = << >>]
       \/ /\ ~BlankQuery(q)
          /\ BadK(k)
          /\ response' = [response EXCEPT ![p] = HttpError("lexical", 400, "k out of range")]
          /\ effects' = [effects EXCEPT ![p] = << >>]
       \/ /\ ~BlankQuery(q)
          /\ ~BadK(k)
          /\ \E results \in search_chunks(q, k) :
                response' = [response EXCEPT ![p] =
                    [NoResponse EXCEPT !.op = "lexical", !.status = 200,
                                       !.results = results,
                                       !.results_found = Len(results)]]
          /\ effects' = [effects EXCEPT ![p] = << "store" >>]
    /\ rows' = RowsAfterSearch
    /\ UNCHANGED << seq, document_id, existing_chunk_count, chunks_list, index,
                    gen_chunks, pos, embeddings_generated, embeddings_skipped, calls,
                    prior, lastPass, staleWrite, cvars, rvars, seq0, vector1, scored >>

\* The response has gone out; the thread is free for the next request.
Finish(p) ==
    /\ pc[p] = "done"
    /\ pc' = [pc EXCEPT ![p] = "idle"]
    /\ document_id' = [document_id EXCEPT ![p] = 0]
    /\ existing_chunk_count' = [existing_chunk_count EXCEPT ![p] = 0]
    /\ chunks_list' = [chunks_list EXCEPT ![p] = << >>]
    /\ index' = [index EXCEPT ![p] = 0]
    /\ gen_chunks' = [gen_chunks EXCEPT ![p] = << >>]
    /\ pos' = [pos EXCEPT ![p] = 0]
    /\ embeddings_generated' = [embeddings_generated EXCEPT ![p] = 0]
    /\ embeddings_skipped' = [embeddings_skipped EXCEPT ![p] = 0]
    /\ response' = [response EXCEPT ![p] = NoResponse]
    /\ calls' = [calls EXCEPT ![p] = << >>]
    /\ prior' = [prior EXCEPT ![p] = FALSE]
    /\ seq0' = [seq0 EXCEPT ![p] = 0]
    /\ top_k' = [top_k EXCEPT ![p] = 0]
    /\ vector1' = [vector1 EXCEPT ![p] = << >>]
    /\ search_query' = [search_query EXCEPT ![p] = << >>]
    /\ effects' = [effects EXCEPT ![p] = << >>]
    /\ scored' = [scored EXCEPT ![p] = {}]
    /\ UNCHANGED << rows, seq, lastPass, staleWrite, cvars, rvars, served >>

Next ==
    \/ \E p \in Procs, d \in RequestIds : IndexStart(p, d)
    \/ \E p \in Procs : IndexDelete(p)
    \/ \E p \in Procs : IndexChunk(p)
    \/ \E p \in Procs : IndexChunkFail(p)
    \/ \E p \in Procs : IndexInsert(p)
    \/ \E p \in Procs : IndexInsertFail(p)
    \/ \E p \in Procs, d \in RequestIds : GenStart(p, d)
    \/ \E p \in Procs : GenSkip(p)
    \/ \E p \in Procs : GenEmbed(p)
    \/ \E p \in Procs : GenEmbedFail(p)
    \/ \E p \in Procs, q \in QueryTexts, k \in Ks : SemanticSearch(p, q, k)
    \/ \E p \in Procs, q \in QueryTexts, k \in Ks : SearchDocuments(p, q, k)
    \/ \E p \in Procs : Finish(p)

Spec == Init /\ [][Next]_vars


\* ================================================================== claims
\* ------------------------------------------------------------- chunk_text

Covered(i) == \E k \in 1 .. Len(spans) : spans[k][1] <= i /\ i < spans[k][2]

\* C5 as stated: when chunk_text returns, every character position of the
\* normalised text lies in the span of an emitted chunk, and every chunk's
\* span starts no later than the end of its predecessor's span.
Coverage ==
    cpc = "done" =>
        /\ \A i \in 0 .. (Len(ctext) - 1) : Covered(i)
        /\ \A k \in 2 .. Len(spans) : spans[k][1] <= spans[k - 1][2]

\* C5 amended: when chunk_text returns, every position of the normalised text
\* that holds a non-space character lies in the span of an emitted chunk, and
\* every chunk's span starts at most one position after the end of its
\* predecessor's span (a position left out holds a single space).
CoverageOfWords ==
    cpc = "done" =>
        /\ \A i \in 0 .. (Len(ctext) - 1) : ctext[i + 1] # " " => Covered(i)
        /\ \A k \in 2 .. Len(spans) : spans[k][1] <= spans[k - 1][2] + 1

\* chunk_text has returned several chunks and left a space out of every span.
CoverageOfWordsWitness ==
    /\ cpc = "done"
    /\ Len(spans) >= 2
    /\ \E i \in 0 .. (Len(ctext) - 1) : ~Covered(i)

\* C6: a normalised text shorter than chunk_size comes back as exactly one
\* chunk, the normalised text itself, whatever the overlap.
ShortTextOneChunk ==
    (cpc = "done" /\ ctext # << >> /\ Len(ctext) < chunk_size) => chunks = << ctext >>

\* ------------------------------------------------------------ the handlers
\* Thread p leaves index_document with a success response in this step.
IndexSucceeds(p) ==
    /\ pc[p] \in {"idx_chunk", "idx_insert"}
    /\ pc'[p] = "done"
    /\ response'[p].status = 200

\* C2: when index_document succeeds on a document that had chunks, the
\* document's chunk count equals chunks_created and no row that was in the
\* table when the run began is left.
ReindexClean ==
    [][\A p \in Procs :
         (IndexSucceeds(p) /\ existing_chunk_count[p] > 0) =>
             /\ Cardinality(RowsOf(document_id[p]))' = response'[p].chunks_created
             /\ \A r \in RowsOf(document_id[p])' : r.born > seq0[p]]_vars

\* The chunk_index values 0 .. n-1 in order.
IndexRun(n) == [i \in 1 .. n |-> i - 1]

\* Thread p reads document d's chunks with get_chunks_by_document in this
\* step, while another thread is re-indexing d.
ReadsDuringReindex(p, d) ==
    /\ pc[p] = "idle"
    /\ pc'[p] = "gen_loop" \/ (pc'[p] = "done" /\ response'[p].op = "generate")
    /\ document_id'[p] = d
    /\ \E q \in Procs \ {p} :
          /\ pc[q] \in {"idx_delete", "idx_chunk", "idx_insert"}
          /\ document_id[q] = d
          /\ existing_chunk_count[q] > 0

\* C3: a reader of the chunk store that reads a document while index_document
\* re-indexes it never sees part of its chunks: the list it gets holds one
\* row for each chunk of the document, chunk_index 0 .. N-1.
NoPartialRead ==
    [][\A p \in Procs : \A d \in DocIds :
         ReadsDuringReindex(p, d) =>
             [i \in 1 .. Len(gen_chunks'[p]) |-> gen_chunks'[p][i].chunk_index]
                 = IndexRun(Len(DocChunks(d).chunks))]_vars

\* Thread p is in, or has just finished, a pass that began after a successful
\* pass over the same chunk rows.
SecondPass(p) == prior[p] /\ pc[p] \in {"gen_loop", "done"}

\* C4: a pass of generate_embeddings_for_document that follows a successful
\* pass over the same chunk rows calls the embedder for no chunk, reports
\* generated = 0 and skipped = total_chunks, and writes to no row.
IdempotentEmbedding ==
    /\ [](\A p \in Procs :
            SecondPass(p) =>
                /\ calls[p] = << >>
                /\ embeddings_generated[p] = 0
                /\ (pc[p] = "done" =>
                        /\ response[p].status = 200
                        /\ response[p].embeddings_generated = 0
                        /\ response[p].embeddings_skipped = Len(gen_chunks[p])))
    /\ [][\A p \in Procs :
            (SecondPass(p) /\ pos'[p] # pos[p]) => rows' = rows]_vars

\* A second pass over a document's unchanged chunk rows has returned.
IdempotentEmbeddingWitness ==
    \E p \in Procs : prior[p] /\ pc[p] = "done" /\ Len(gen_chunks[p]) >= 2

\* C7: a chunk row carries an embedding only if that embedding was computed
\* from this very row (never from a row of an earlier generation), and a row
\* enters the table without an embedding.
NoStaleEmbedding ==
    /\ [](\A r \in rows : r.embedding # NULL => r.embedding.of = r.born)
    /\ [][\A r \in rows' :
            (\A o \in rows : o.born # r.born) => r.embedding = NULL]_vars

\* A pass that had read the old rows wrote after the re-index, and the rows of
\* the new generation are without an embedding.
NoStaleEmbeddingWitness ==
    /\ staleWrite
    /\ \E p \in Procs :
          /\ pc[p] \in {"gen_loop", "done"}
          /\ embeddings_generated[p] > 0
          /\ RowsOf(document_id[p]) # {}
          /\ \A r \in RowsOf(document_id[p]) : r.embedding = NULL

\* C8: when an insert of the loop fails, the step that handles the failure
\* leaves the document without any chunk and answers with an error.
RollbackOnInsertFailure ==
    [][\A p \in Procs :
         (pc[p] = "idx_insert" /\ pc'[p] = "done" /\ index'[p] < Len(chunks_list[p])) =>
             /\ RowsOf(document_id[p])' = {}
             /\ response'[p].status = 500]_vars

\* An insert failed after at least one chunk had gone in, and the document
\* has no chunk.
RollbackOnInsertFailureWitness ==
    \E p \in Procs :
        /\ pc[p] = "done"
        /\ response[p].op = "index"
        /\ response[p].status = 500
        /\ index[p] >= 1
        /\ RowsOf(document_id[p]) = {}

\* C9: right after index_document succeeds with N chunks, the document has
\* one row for each chunk_index 0 .. N-1 and no other, and the row with
\* chunk_index i holds the i-th chunk chunk_text emitted.
SequentialIndices ==
    [][\A p \in Procs :
         IndexSucceeds(p) =>
             LET R == RowsOf(document_id[p])'
                 N == response'[p].chunks_created
             IN  /\ {r.chunk_index : r \in R} = 0 .. (N - 1)
                 /\ Cardinality(R) = N
                 /\ \A r \in R : r.chunk_text = chunks_list'[p][r.chunk_index + 1]]_vars

\* Ids of the first n chunks of thread p's list that came without an embedding.
IdsLacking(p, n) ==
    LET Lacks(c) == c.embedding = NULL
        sel == SelectSeq(SubSeq(gen_chunks[p], 1, n), Lacks)
    IN  [i \in 1 .. Len(sel) |-> sel[i].id]

\* C10: within one pass the embedder is called once, in order, for each chunk
\* of the list that came without an embedding and for no other; a pass that
\* succeeds reports generated + skipped = total_chunks, and every chunk it
\* read that is still stored has an embedding.
EmbedOncePerMissing ==
    \A p \in Procs :
        /\ pc[p] = "gen_loop" => calls[p] = IdsLacking(p, pos[p])
        /\ (pc[p] = "done" /\ response[p].op = "generate" /\ response[p].status = 200) =>
              /\ calls[p] = IdsLacking(p, Len(gen_chunks[p]))
              /\ response[p].embeddings_generated = Len(calls[p])
              /\ response[p].embeddings_generated + response[p].embeddings_skipped
                     = response[p].total_chunks
              /\ response[p].total_chunks = Len(gen_chunks[p])
              /\ \A i \in 1 .. Len(gen_chunks[p]) :
                    \A r \in rows : r.id = gen_chunks[p][i].id => r.embedding # NULL

\* A pass has succeeded that skipped one chunk and embedded another.
EmbedOncePerMissingWitness ==
    \E p \in Procs :
        /\ pc[p] = "done"
        /\ response[p].op = "generate"
        /\ response[p].status = 200
        /\ response[p].embeddings_generated >= 1
        /\ response[p].embeddings_skipped >= 1

\* Thread p's pass ends in this step because the embedder raised.
EmbedderFails(p) ==
    /\ pc[p] = "gen_loop"
    /\ pc'[p] = "done"
    /\ response'[p].status # 200

\* C11: when the embedder fails for a chunk in the middle of a pass, the step
\* that handles the failure changes no row (the embeddings the pass wrote
\* stay, the chunks it had not reached stay as they were) and the pass is
\* answered with an error; afterwards every chunk the pass embedded that is
\* still stored carries an embedding.
NoRollbackOnEmbedFailure ==
    /\ [][\A p \in Procs :
            EmbedderFails(p) => (rows' = rows /\ response'[p].status = 500)]_vars
    /\ [](\A p \in Procs :
            (pc[p] = "done" /\ response[p].op = "generate" /\ response[p].status = 500) =>
                \A i \in 1 .. embeddings_generated[p] :
                    \A r \in rows : r.id = calls[p][i] => r.embedding # NULL)

\* A pass failed after it had embedded a chunk; that chunk has its embedding
\* and a chunk of the document is without one.
NoRollbackOnEmbedFailureWitness ==
    \E p \in Procs :
        /\ pc[p] = "done"
        /\ response[p].op = "generate"
        /\ response[p].status = 500
        /\ embeddings_generated[p] >= 1
        /\ \E r \in rows : r.id = calls[p][1] /\ r.embedding # NULL
        /\ \E r \in RowsOf(document_id[p]) : r.embedding = NULL

\* --------------------------------------------------------- semantic_search
\* Thread p's semantic_search reads the store and returns in this step.
Searches(p) ==
    /\ pc[p] = "idle"
    /\ pc'[p] = "done"
    /\ response'[p].op = "search"
    /\ response'[p].status = 200

\* Result a does not come after result b in the order of the candidate list.
CandidateOrder(a, b) ==
    \/ a.document_id < b.document_id
    \/ a.document_id = b.document_id /\ a.chunk_index <= b.chunk_index

\* C12: the results of semantic_search are in descending order of score, and
\* results of equal score stand in the order of the candidate list (ascending
\* document_id, then chunk_index).
RankedDescending ==
    \A p \in Procs :
        response[p].op = "search" =>
            LET res == response[p].results
            IN  \A i, j \in 1 .. Len(res) :
                    i < j => /\ res[i].similarity >= res[j].similarity
                             /\ res[i].similarity = res[j].similarity
                                    => CandidateOrder(res[i], res[j])

\* A search has returned two results of equal score from different places of
\* the candidate list.
RankedDescendingWitness ==
    \E p \in Procs :
        /\ response[p].op = "search"
        /\ Len(response[p].results) >= 2
        /\ response[p].results[1].similarity = response[p].results[2].similarity
        /\ response[p].results[1].chunk_index # response[p].results[2].chunk_index

\* The score semantic_search gives row r for the query embedding v.
ScoreOf(v, r) == Round4(compute_similarity(v, r.embedding.vec))

\* C13: a semantic_search that returns gives min(k, number of chunks with an
\* embedding) results, each a different chunk with an embedding, and no chunk
\* left out scores strictly higher than a returned one.
TopKHighest ==
    [][\A p \in Procs :
         Searches(p) =>
             LET res == response'[p].results
                 E == {r \in rows : r.embedding # NULL}
                 got == {res[i].chunk_id : i \in 1 .. Len(res)}
             IN  /\ Len(res) = Min(top_k'[p], Cardinality(E))
                 /\ response'[p].results_returned = Len(res)
                 /\ Cardinality(got) = Len(res)
                 /\ got \subseteq {r.id : r \in E}
                 /\ \A r \in E : r.id \notin got =>
                        \A i \in 1 .. Len(res) :
                            ScoreOf(vector1'[p], r) <= res[i].similarity]_vars

\* A search has returned fewer results than there were candidates, and the
\* candidate left out scores lower than the one returned.
TopKHighestWitness ==
    \E p \in Procs :
        /\ pc[p] = "done"
        /\ response[p].op = "search"
        /\ response[p].status = 200
        /\ response[p].results_returned = top_k[p]
        /\ response[p].results_returned < response[p].total_chunks_searched
        /\ \E r \in rows : /\ r.embedding # NULL
                           /\ ScoreOf(vector1[p], r) < response[p].results[1].similarity

\* C14: a semantic_search that finds no chunk with an embedding returns with
\* status 200, no results, total_chunks_searched = 0 and a message; one that
\* finds some returns at least one result and no message; an error has
\* neither results nor message and another status.
NothingIndexedOutcome ==
    /\ [][\A p \in Procs :
            Searches(p) =>
                IF \A r \in rows : r.embedding = NULL
                THEN /\ response'[p].results = << >>
                     /\ response'[p].total_chunks_searched = 0
                     /\ response'[p].message # ""
                ELSE /\ response'[p].results # << >>
                     /\ response'[p].total_chunks_searched >= 1
                     /\ response'[p].message = ""]_vars
    /\ [](\A p \in Procs :
            (response[p].op = "search" /\ response[p].status # 200) =>
                /\ response[p].status \in {400, 500}
                /\ response[p].results = << >>
                /\ response[p].message = "")

\* A search over a store that holds chunks, none with an embedding, has
\* returned the nothing-indexed outcome.
NothingIndexedOutcomeWitness ==
    \E p \in Procs :
        /\ pc[p] = "done"
        /\ response[p].op = "search"
        /\ response[p].status = 200
        /\ response[p].message # ""
        /\ rows # {}
        /\ \A r \in rows : r.embedding = NULL

\* ------------------------------------------------- chunk_text, more claims
\* C15: chunk_text called with chunk_size <= 0 is rejected before any
\* segmentation work: it neither enters the loop nor returns a result.
BadSizeRejected == chunk_size <= 0 => cpc \notin {"loop", "done"}

\* ceil(a / b) for a >= 0 and b >= 1.
CeilDiv(a, b) == (a + b - 1) \div b

\* C16: a call of chunk_text that has returned executed at most
\* ceil(L / max(1, chunk_size - overlap)) iterations of its loop, L the length
\* of the normalised text.
IterationBound ==
    cpc = "done" => iters <= CeilDiv(Len(ctext), Max(1, chunk_size - overlap))

\* A text that is not empty and neither begins nor ends with whitespace.
Trimmed(c) == c # << >> /\ c[1] \notin Whitespace /\ c[Len(c)] \notin Whitespace

\* C17: every chunk chunk_text emits is non-empty and has no leading or
\* trailing whitespace; the list a returned call built is the list
\* index_document gets for these arguments, and every stored chunk row holds
\* such a text.
ChunksTrimmed ==
    /\ \A n \in 1 .. Len(chunks) : Trimmed(chunks[n])
    /\ cpc = "done" =>
           chunk_text(text, chunk_size, overlap) = [halts |-> TRUE, chunks |-> chunks]
    /\ \A r \in rows : Trimmed(TextOf(r.chunk_text))

\* chunk_text has returned several chunks, one of them cut from a slice that
\* began with a space.
ChunksTrimmedWitness ==
    /\ cpc = "done"
    /\ Len(chunks) >= 2
    /\ \E n \in 1 .. Len(spans) : ctext[spans[n][1] + 1] = " "

\* ------------------------------------------------------ chunk store, claims
\* Thread p's pass calls the embedder in this step for a chunk whose row is
\* no longer in the table, and then update_chunk_embedding if the call
\* returned.
EmbedsMissingChunk(p) ==
    /\ pc[p] = "gen_loop"
    /\ Len(calls'[p]) = Len(calls[p]) + 1
    /\ ~\E r \in rows : r.id = calls'[p][Len(calls'[p])]

\* C18: update_chunk_embedding on a chunk id that has no row leaves the table
\* as it is and does not complete silently: the pass that made the call does
\* not count the chunk as embedded and ends with an error.
MissingChunkSignalled ==
    [][\A p \in Procs :
         EmbedsMissingChunk(p) =>
             /\ rows' = rows
             /\ embeddings_generated'[p] = embeddings_generated[p]
             /\ pc'[p] = "done"
             /\ response'[p].status # 200]_vars

\* C19: in every reachable state no two chunk rows of one document have the
\* same chunk_index.
UniqueChunkIndex ==
    \A r1, r2 \in rows :
        (r1.document_id = r2.document_id /\ r1.chunk_index = r2.chunk_index) => r1 = r2

\* C20: a chunk row that has an embedding keeps exactly that embedding for as
\* long as the row exists, and no pass calls the embedder for a chunk whose
\* row has an embedding.
EmbeddingWrittenOnce ==
    [][/\ \A r \in rows : \A n \in rows' :
             (n.id = r.id /\ r.embedding # NULL) => n.embedding = r.embedding
       /\ \A p \in Procs :
             Len(calls'[p]) = Len(calls[p]) + 1 =>
                 \A r \in rows : r.id = calls'[p][Len(calls'[p])] => r.embedding = NULL]_vars

\* ------------------------------------------------ embedding gate, more claims
\* Number of chunks of thread p's list that came with an embedding.
AlreadyEmbedded(p) ==
    Cardinality({i \in 1 .. Len(gen_chunks[p]) : gen_chunks[p][i].embedding # NULL})

\* Thread p's pass has returned its summary.
PassSucceeded(p) ==
    pc[p] = "done" /\ response[p].op = "generate" /\ response[p].status = 200

\* C21 as stated: a pass over N chunks of which M >= 1 carry an embedding
\* reports generated = 0 and skipped = M, and the chunks that came without an
\* embedding are still without one after the pass.
GateLeavesRestUnembedded ==
    \A p \in Procs :
        (PassSucceeded(p) /\ AlreadyEmbedded(p) >= 1) =>
            /\ response[p].embeddings_generated = 0
            /\ response[p].embeddings_skipped = AlreadyEmbedded(p)
            /\ \A i \in 1 .. Len(gen_chunks[p]) :
                   gen_chunks[p][i].embedding = NULL =>
                       \A r \in rows : r.id = gen_chunks[p][i].id => r.embedding = NULL

\* C21 amended: a pass over N chunks of which M carry an embedding reports
\* skipped = M and generated = N - M, and after it every one of the N chunks
\* that is still stored has an embedding.
GateEmbedsTheRest ==
    \A p \in Procs :
        PassSucceeded(p) =>
            /\ response[p].embeddings_skipped = AlreadyEmbedded(p)
            /\ response[p].embeddings_generated = Len(gen_chunks[p]) - AlreadyEmbedded(p)
            /\ \A r \in rows : r.id \in Ids(gen_chunks[p]) => r.embedding # NULL

\* A pass over a document of which a part was embedded has returned, and the
\* whole document is embedded now.
GateEmbedsTheRestWitness ==
    \E p \in Procs :
        /\ PassSucceeded(p)
        /\ AlreadyEmbedded(p) >= 1
        /\ AlreadyEmbedded(p) < Len(gen_chunks[p])
        /\ RowsOf(document_id[p]) # {}
        /\ \A r \in RowsOf(document_id[p]) : r.embedding # NULL

\* ------------------------------------------------------ ranking loop, claims
\* C22: a stored embedding whose dimensionality differs from the query's is
\* rejected before any ranking work: when the search fails on it, no
\* candidate has been scored.
MismatchRejectedFirst == rpc = "raised" => sim_results = << >>

\* The ranking loop scores its next candidate in this step, and the query or
\* the candidate has zero magnitude.
ScoresZeroVector ==
    /\ rpc = "loop"
    /\ Len(sim_results) < Len(candidates)
    /\ NormSq(query_vec) = 0 \/ NormSq(candidates[Len(sim_results) + 1]) = 0

\* The step gave the candidate the score 0.0 and did not raise.
ScoredZero ==
    /\ rpc' = "loop"
    /\ Len(sim_results') = Len(sim_results) + 1
    /\ sim_results'[Len(sim_results')].similarity = 0

\* C23 as stated: compute_similarity gives 0.0 and does not raise whenever one
\* of its two vectors has zero magnitude, whatever the other vector is.
ZeroVectorSafe == [][ScoresZeroVector => ScoredZero]_vars

\* C23 amended: compute_similarity gives 0.0 and does not raise whenever one
\* of its two vectors has zero magnitude and the other has the same number of
\* components.
ZeroVectorSafeSameDim ==
    [][(ScoresZeroVector
          /\ Len(query_vec) = Len(candidates[Len(sim_results) + 1])) => ScoredZero]_vars

\* A candidate of zero magnitude has been scored 0.0 against a query that is
\* not the zero vector.
ZeroVectorSafeSameDimWitness ==
    \E i \in 1 .. Len(sim_results) :
        /\ NormSq(candidates[i]) = 0
        /\ NormSq(query_vec) # 0
        /\ sim_results[i].similarity = 0

\* ------------------------------------------------------------ delete, claims
\* Thread p runs delete_existing_chunks in this step: the delete before a
\* re-index (line 183) or the one of the except branch (line 207).
DeleteStep(p) ==
    \/ pc[p] = "idx_delete" /\ pc'[p] = "idx_chunk"
    \/ pc[p] = "idx_insert" /\ pc'[p] = "done" /\ response'[p].status = 500

\* C24: delete_existing_chunks(document_id) leaves no chunk of the document
\* (the embedding goes with its row), leaves the chunks of every other
\* document as they were, and a second call right after it changes nothing;
\* this includes a call on a document that has no chunks.
DeleteAllOfDocument ==
    [][\A p \in Procs :
         DeleteStep(p) =>
            /\ RowsOf(document_id[p])' = {}
            /\ rows' = rows \ RowsOf(document_id[p])
            /\ delete_existing_chunks(document_id[p])' = rows']_vars

\* A re-index has deleted the old chunks of its document while the other
\* document keeps its chunks.
DeleteAllOfDocumentWitness ==
    \E p \in Procs :
        /\ pc[p] = "idx_chunk"
        /\ existing_chunk_count[p] > 0
        /\ RowsOf(document_id[p]) = {}
        /\ \E r \in rows : r.document_id # document_id[p]

\* ------------------------------------------------------- chunk_text, more claims
\* C25: for every chunk_size and overlap, chunk_text of a text that is empty
\* or holds only whitespace returns the empty list, and it returns from the
\* guard, before the loop.
BlankTextNoChunks ==
    Strip(text) = << >> =>
        /\ cpc # "loop"
        /\ cpc = "done" => chunks = << >>

\* A call with a text of whitespace only, a chunk_size below 1 and a positive
\* overlap has returned.
BlankTextNoChunksWitness ==
    /\ cpc = "done"
    /\ text # << >>
    /\ Strip(text) = << >>
    /\ chunk_size < 1
    /\ overlap > 0
    /\ chunks = << >>

\* C26: for 0 < overlap < chunk_size, of two chunks emitted one after the
\* other the span of the later one starts exactly overlap characters before
\* the end of the span of the earlier one.
OverlapExact ==
    (0 < overlap /\ overlap < chunk_size) =>
        \A i \in 1 .. (Len(spans) - 1) : spans[i + 1][1] = spans[i][2] - overlap

\* C27: for every chunk_size >= 1, every chunk chunk_text has emitted, the
\* last one included, has at most chunk_size characters.
ChunkWithinSize ==
    \A i \in 1 .. Len(chunks) : Len(chunks[i]) <= chunk_size

\* A call on a text longer than chunk_size has returned several chunks, one
\* of them of exactly chunk_size characters, and a last one.
ChunkWithinSizeWitness ==
    /\ cpc = "done"
    /\ Len(ctext) > chunk_size
    /\ chunk_size >= 2
    /\ Len(chunks) >= 2
    /\ \E i \in 1 .. Len(chunks) : Len(chunks[i]) = chunk_size
    /\ Len(chunks[Len(chunks)]) >= 1

\* ------------------------------------------------------- the searches, claims
\* Thread p serves a semantic_search request in this step and the request
\* passes the validation of q and k.
SemanticStep(p) ==
    /\ pc[p] = "idle"
    /\ pc'[p] = "done"
    /\ response'[p].op = "search"
    /\ response'[p].status # 400

\* The number of calls of the external embedder among the effects e.
EmbedCalls(e) == Cardinality({i \in 1 .. Len(e) : e[i] = "embed"})

\* C28: a semantic_search that passes validation calls the external embedder
\* exactly once and leaves the chunk store as it found it: the same rows
\* with the same texts, indices and embeddings, and the same id sequence,
\* whatever other requests are in progress.
SearchReadOnly ==
    [][\A p \in Procs :
         SemanticStep(p) =>
            /\ EmbedCalls(effects'[p]) = 1
            /\ rows' = rows
            /\ seq' = seq]_vars

\* A semantic_search has ranked stored chunks and returned while a pass of
\* generate_embeddings_for_document of the other thread is under way.
SearchReadOnlyWitness ==
    \E p \in Procs : \E o \in Procs \ {p} :
        /\ pc[p] = "done"
        /\ response[p].op = "search"
        /\ response[p].status = 200
        /\ response[p].results # << >>
        /\ effects[p] = << "embed", "store" >>
        /\ pc[o] = "gen_loop"
        /\ \E r \in rows : r.embedding = NULL

\* Thread p has answered a search request, lexical or semantic.
Searched(p) == pc[p] = "done" /\ response[p].op \in {"search", "lexical"}

\* The request of thread p has an empty or whitespace-only q, or k outside 1..20.
BadRequest(p) ==
    \/ Strip(search_query[p]) = << >>
    \/ top_k[p] < 1
    \/ top_k[p] > 20

\* C29: a search request, lexical or semantic, with a blank q or with k
\* outside 1..20 is answered 400 without a call of the embedder and without
\* an access to the chunk store; every other search request returns at most
\* k results.
SearchValidated ==
    \A p \in Procs :
        Searched(p) =>
            IF BadRequest(p)
            THEN response[p].status = 400 /\ effects[p] = << >>
            ELSE /\ response[p].status # 400
                 /\ Len(response[p].results) <= top_k[p]
                 /\ Len(response[p].results) <= 20

\* A lexical search has returned exactly k chunks while more than k stored
\* chunks contain the keyword.
SearchValidatedWitness ==
    \E p \in Procs :
        /\ Searched(p)
        /\ response[p].op = "lexical"
        /\ response[p].status = 200
        /\ Len(response[p].results) = top_k[p]
        /\ Cardinality({r \in rows : Like(search_query[p], TextOf(r.chunk_text))}) > top_k[p]

\* ---------------------------------------------------- chunk_text, progress
\* C30: every iteration of the loop of chunk_text ends with start strictly
\* greater than it began with, and an iteration whose chunk is no longer than
\* overlap (overlap >= end - start) ends with start = end.
StartAdvances ==
    [][(cpc = "loop" /\ start < Len(ctext)) =>
          /\ start' > start
          /\ overlap >= ChunkEnd(ctext, chunk_size, start) - start =>
                 start' = ChunkEnd(ctext, chunk_size, start)]_vars

\* ------------------------------------------------- chunk_text, word boundary
\* The iteration that begins now is not the last one (start + chunk_size < L)
\* and emits a chunk.
EmitsBeforeEnd ==
    /\ cpc = "loop"
    /\ start < Len(ctext)
    /\ start + chunk_size < Len(ctext)
    /\ Len(spans') = Len(spans) + 1

\* The positions of the spaces strictly between start and start + chunk_size.
SpacesInside ==
    {i \in (start + 1) .. (start + chunk_size - 1) : ctext[i + 1] = " "}

MovesBackOnlyInsideWord ==
    [][EmitsBeforeEnd =>
          LET end == spans'[Len(spans')][2]
              tentative == start + chunk_size
          IN  end < tentative =>
                 ctext[tentative] # " " /\ ctext[tentative + 1] # " "]_vars

\* C33: no emitted chunk has a span that lies inside the span of the chunk
\* emitted before it.
NoContainedChunk ==
    \A i \in 1 .. (Len(spans) - 1) :
        ~(spans[i][1] <= spans[i + 1][1] /\ spans[i + 1][2] <= spans[i][2])

\* ------------------------------------------------ index_document, more claims
\* Thread p's chunk_document raises in this step, in a run that counted
\* chunks of its document and deleted them.
ChunkingFailsOnReindex(p) ==
    /\ pc[p] = "idx_chunk"
    /\ pc'[p] = "done"
    /\ response'[p].status = 500
    /\ existing_chunk_count[p] > 0

\* C34: when reading or chunking raises in index_document on a document that
\* had chunks, the handler answers with an error and the document is left
\* with zero chunks: the old ones are gone and none has come in their place.
ChunkingFailureLeavesNone ==
    [][\A p \in Procs :
         ChunkingFailsOnReindex(p) =>
            /\ response'[p].status = 500
            /\ RowsOf(document_id[p])' = {}]_vars

\* Thread p's index_document takes a step.
IndexStep(p) ==
    \/ /\ pc[p] = "idle"
       /\ \/ pc'[p] \in {"idx_delete", "idx_chunk"}
          \/ pc'[p] = "done" /\ response'[p].op = "index"
    \/ /\ pc[p] \in {"idx_delete", "idx_chunk", "idx_insert"}
       /\ pc'[p] # pc[p] \/ index'[p] # index[p]

\* Thread p's index_document returns from its checks of the document.
IndexRejected(p) ==
    /\ pc[p] = "idle"
    /\ pc'[p] = "done"
    /\ response'[p].op = "index"

\* C35: index_document on an id that is not in the documents table, or on a
\* document whose file is missing, answers with an error and leaves the chunk
\* table as it was, and no step of any index_document run changes the
\* chunks of a document other than its own.
IndexTouchesOwnDocumentOnly ==
    [][\A p \in Procs :
         IndexStep(p) =>
            /\ {r \in rows' : r.document_id # document_id'[p]}
                  = {r \in rows : r.document_id # document_id'[p]}
            /\ document_id'[p] \notin DocIds =>
                  IndexRejected(p) /\ response'[p].status = 404
            /\ IndexRejected(p) =>
                  /\ response'[p].status \in {404, 500}
                  /\ rows' = rows
                  /\ seq' = seq]_vars

\* index_document has answered that the file of a document is missing while
\* that document and the other one have chunks in the table.
IndexTouchesOwnDocumentOnlyWitness ==
    \E p \in Procs :
        /\ pc[p] = "done"
        /\ response[p].op = "index"
        /\ response[p].detail = "file missing"
        /\ \A d \in DocIds : RowsOf(d) # {}

\* --------------------------------------------- semantic_search, candidates
\* Thread p serves a semantic_search request in this step.
SemanticRequest(p) ==
    /\ pc[p] = "idle"
    /\ pc'[p] = "done"
    /\ response'[p].op = "search"

\* The ids of the rows that carry an embedding.
EmbeddedIds == {r.id : r \in {x \in rows : x.embedding # NULL}}

\* C36: every chunk semantic_search passes to compute_similarity, and so
\* every chunk among its results, is a row that carried a non-null embedding
\* in the table the request scanned.
OnlyEmbeddedRanked ==
    [][\A p \in Procs :
         SemanticRequest(p) =>
            /\ scored'[p] \subseteq EmbeddedIds
            /\ \A i \in 1 .. Len(response'[p].results) :
                  response'[p].results[i].chunk_id \in scored'[p]]_vars

\* A semantic_search has returned results while the table holds a chunk
\* without an embedding, which is not among them.
OnlyEmbeddedRankedWitness ==
    \E p \in Procs :
        /\ pc[p] = "done"
        /\ response[p].op = "search"
        /\ response[p].status = 200
        /\ response[p].results # << >>
        /\ \E r \in rows :
              /\ r.embedding = NULL
              /\ r.id \notin scored[p]
              /\ \A i \in 1 .. Len(response[p].results) :
                    response[p].results[i].chunk_id # r.id

\* A lexical search has returned a chunk that has no embedding.
LexicalReturnsUnembedded ==
    \E p \in Procs :
        /\ pc[p] = "done"
        /\ response[p].op = "lexical"
        /\ \E i \in 1 .. Len(response[p].results) : \E r \in rows :
              r.id = response[p].results[i].chunk_id /\ r.embedding = NULL

\* ------------------------------------ generate_embeddings_for_document, start
\* Thread p's generate_embeddings_for_document looks up its document and
\* reads the document's chunks in this step.
GenStartStep(p) ==
    /\ pc[p] = "idle"
    /\ \/ pc'[p] = "gen_loop"
       \/ pc'[p] = "done" /\ response'[p].op = "generate"

\* C37: generate_embeddings_for_document on an id that is not in the
\* documents table, or on a document without chunks, answers 404, calls the
\* embedder for no chunk and leaves every row, and so every stored
\* embedding, as it was.
GenRejectsNothingToEmbed ==
    [][\A p \in Procs :
         (GenStartStep(p)
            /\ (document_id'[p] \notin DocIds \/ RowsOf(document_id'[p]) = {})) =>
               /\ pc'[p] = "done"
               /\ response'[p].status = 404
               /\ calls'[p] = << >>
               /\ rows' = rows]_vars

\* generate_embeddings_for_document has answered 404 for a known document
\* that has no chunks, while the other document keeps an embedded chunk.
GenRejectsNothingToEmbedWitness ==
    \E p \in Procs :
        /\ pc[p] = "done"
        /\ response[p].op = "generate"
        /\ response[p].status = 404
        /\ document_id[p] \in DocIds
        /\ RowsOf(document_id[p]) = {}
        /\ calls[p] = << >>
        /\ \E r \in rows : r.embedding # NULL

=============================================================================
